---- MODULE Spec2Model ----
(***************************************************************************)
(* Model of the soundscope array utilities: trim (silence trimming),       *)
(* reverse (block reversal), split (channel splitting) and invert          *)
(* (polarity inversion), as a caller applying them in sequence to an       *)
(* imported array.                                                         *)
(*                                                                         *)
(* A numpy array is a record [shape, data]: a mono array has shape <<N>>   *)
(* and data a sequence of N samples, a stereo array has shape <<N, 2>> and *)
(* data a sequence of N frames <<left, right>>.  Samples are integers that *)
(* count multiples of sys.float_info.epsilon, so the sample 1 is exactly   *)
(* epsilon and 2 is the smallest modelled sample above it.  Indices are    *)
(* 0-based as in the code; TLA+ sequences are 1-based, so an access adds 1.*)
(***************************************************************************)
EXTENDS Integers, Sequences, FiniteSets, TLC

\* ------------------------------------------------------------------ bounds
MaxMonoLen == 4
MaxStereoLen == 3
MaxSubdivision == 2

\* sample amplitudes, in units of epsilon
MonoSamples == {-2, -1, 0, 1, 2}
StereoSamples == {-1, 0, 2}

\* ------------------------------------------------------- values and helpers
Epsilon == 1

abs(v) == IF v < 0 THEN 0 - v ELSE v

Min2(a, b) == IF a <= b THEN a ELSE b
Max2(a, b) == IF a >= b THEN a ELSE b

SeqsUpTo(S, n) == UNION {[1..k -> S] : k \in 0..n}

MonoArray(d) == [shape |-> <<Len(d)>>, data |-> d]
StereoArray(d) == [shape |-> <<Len(d), 2>>, data |-> d]

ndim(array) == Len(array.shape)

\* len(array): the extent of axis 0
len(array) == array.shape[1]

\* number of columns that a reduction along axis 0 leaves
ncols(array) == IF ndim(array) = 1 THEN 1 ELSE array.shape[2]

\* the samples of channel c (1-based) along axis 0
Column(array, c) ==
    [i \in 1..len(array) |->
        IF ndim(array) = 1 THEN array.data[i] ELSE array.data[i][c]]

FlipSeq(s) == [i \in 1..Len(s) |-> s[Len(s) + 1 - i]]

\* return values of a call
RetArray(a) == [kind |-> "array", val |-> a]
RetRaise(e) == [kind |-> "raise", val |-> e]
RetNone == [kind |-> "None", val |-> "None"]
RetStr(s) == [kind |-> "str", val |-> s]
RetTuple(t) == [kind |-> "tuple", val |-> t]

\* ------------------------------------------------------------------- trim.py
\* the mask taken with >= in place of >
mask_inclusive(array) ==
    [shape |-> array.shape,
     data |-> [i \in 1..len(array) |->
        IF ndim(array) = 1
        THEN abs(array.data[i]) >= Epsilon
        ELSE [c \in 1..array.shape[2] |-> abs(array.data[i][c]) >= Epsilon]]]

\* abs(array) > epsilon, element by element
mask(array) ==
    [shape |-> array.shape,
     data |-> [i \in 1..len(array) |->
        IF ndim(array) = 1
        THEN abs(array.data[i]) > Epsilon
        ELSE [c \in 1..array.shape[2] |-> abs(array.data[i][c]) > Epsilon]]]

\* ndarray.any over one column
any(col) == \E i \in 1..Len(col) : col[i]

\* ndarray.argmax over one boolean column: 0-based index of the first
\* maximum, i.e. the first TRUE, or 0 when there is none.  Raises
\* ValueError on an empty column (see ArgmaxRaises).
argmax(col) ==
    IF any(col)
    THEN (CHOOSE i \in 1..Len(col) :
            col[i] /\ \A j \in 1..(i - 1) : ~col[j]) - 1
    ELSE 0

ArgmaxRaises(array) == len(array) = 0

InvalidVal == -1

\* per-channel index of the first non-silent sample (axis 0)
first_nonzero(array, msk) ==
    [c \in 1..ncols(array) |->
        IF any(Column(msk, c)) THEN argmax(Column(msk, c)) ELSE InvalidVal]

\* last_nonzero without the offset from the axis length that compensates
\* for the flip
last_nonzero_uncompensated(array, msk) ==
    [c \in 1..ncols(array) |->
        IF any(Column(msk, c))
        THEN argmax(FlipSeq(Column(msk, c)))
        ELSE InvalidVal]

\* last_nonzero without the np.where guard on all-silent channels
last_nonzero_unguarded(array, msk) ==
    [c \in 1..ncols(array) |->
        len(array) - argmax(FlipSeq(Column(msk, c))) - 1]

\* per-channel index of the last non-silent sample (axis 0)
last_nonzero(array, msk) ==
    [c \in 1..ncols(array) |->
        IF any(Column(msk, c))
        THEN len(array) - argmax(FlipSeq(Column(msk, c))) - 1
        ELSE InvalidVal]

\* what the two calls first_nonzero(array, 0, mask1) and
\* last_nonzero(array, 0, mask1) in trim come to: mask.argmax(axis=0) is
\* evaluated before np.where and raises on an array without frames
nonzero_bounds(array) ==
    IF ArgmaxRaises(array)
    THEN RetRaise("ValueError")
    ELSE RetTuple(<<first_nonzero(array, mask(array)),
                    last_nonzero(array, mask(array))>>)

RECURSIVE amin(_)
amin(s) == IF Len(s) = 1 THEN s[1] ELSE Min2(s[1], amin(Tail(s)))

RECURSIVE amax(_)
amax(s) == IF Len(s) = 1 THEN s[1] ELSE Max2(s[1], amax(Tail(s)))

\* Python's normalisation of one bound of a slice over n items
SliceIndex(i, n) == IF i < 0 THEN Max2(i + n, 0) ELSE Min2(i, n)

\* array[start:stop].copy() along axis 0
Slice(array, start, stop) ==
    LET n == len(array)
        s == SliceIndex(start, n)
        e == SliceIndex(stop, n)
        d == SubSeq(array.data, s + 1, e)
    IN  [shape |-> <<Len(d)>> \o Tail(array.shape), data |-> d]

\* trim with the stop bound left exclusive of the last non-silent frame
trim_exclusive_stop(array) ==
    LET mask1 == mask(array)
    IN  IF ArgmaxRaises(array)
        THEN RetRaise("ValueError")
        ELSE RetArray(Slice(array,
                            amin(first_nonzero(array, mask1)),
                            amax(last_nonzero(array, mask1))))

\* trim by boolean indexing: every frame with a non-silent sample
trim_boolean_index(array) ==
    LET keep(f) == IF ndim(array) = 1
                   THEN abs(f) > Epsilon
                   ELSE \E c \in 1..array.shape[2] : abs(f[c]) > Epsilon
        d == SelectSeq(array.data, keep)
    IN  RetArray([shape |-> <<Len(d)>> \o Tail(array.shape), data |-> d])

trim(array) ==
    LET mask1 == mask(array)
    IN  IF ArgmaxRaises(array)
        THEN RetRaise("ValueError")
        ELSE RetArray(Slice(array,
                            amin(first_nonzero(array, mask1)),
                            amax(last_nonzero(array, mask1)) + 1))

\* ---------------------------------------------------------------- reverse.py
DefaultSubdivision == 1

\* np.split(array, sections), then np.asarray of the list: an array of
\* shape (sections, L, ...) whose k-th item is the k-th segment
np_split(array, sections) ==
    LET L == len(array) \div sections
    IN  [shape |-> <<sections, L>> \o Tail(array.shape),
         data |-> [k \in 1..sections |->
                     SubSeq(array.data, (k - 1) * L + 1, k * L)]]

\* np.flip(m, axis=0): the segments change places
np_flip_axis0(m) == [shape |-> m.shape, data |-> FlipSeq(m.data)]

\* np.flip(m, axis=1)
np_flip(m) == [shape |-> m.shape,
               data |-> [k \in 1..Len(m.data) |-> FlipSeq(m.data[k])]]

\* the items read in column-major (order='F') order
Flatten_F(m) ==
    LET n == m.shape[1]
        L == m.shape[2]
    IN  [i \in 1..(n * L) |-> m.data[((i - 1) % n) + 1][((i - 1) \div n) + 1]]

\* the items of a 2-d or 3-d array laid end to end along axis 0
Flatten(m) ==
    LET n == m.shape[1]
        L == m.shape[2]
    IN  [i \in 1..(n * L) |-> m.data[((i - 1) \div L) + 1][((i - 1) % L) + 1]]

\* np.row_stack(m): each item of m is made at least 2-d and the items are
\* concatenated along axis 0
np_row_stack(m) ==
    IF Len(m.shape) = 2
    THEN m
    ELSE [shape |-> <<m.shape[1] * m.shape[2]>> \o Tail(Tail(m.shape)),
          data |-> Flatten(m)]

\* only the first segment is kept
reshape_first_segment(m, size) == [shape |-> <<m.shape[2]>>, data |-> m.data[1]]

\* rev_array.reshape(size) of a 2-d array
reshape(m, size) == [shape |-> <<size>>, data |-> Flatten(m)]

\* array.size
size(array) == IF ndim(array) = 1 THEN len(array) ELSE len(array) * array.shape[2]

ErrorLine == "Error: array size not divisible by subdivision."

reverse(array, chans, subdivision) ==
    IF len(array) % subdivision # 0
    THEN [ret |-> RetNone, out |-> <<ErrorLine>>]
    ELSE LET rev_array == np_row_stack(np_flip(np_split(array, subdivision)))
         IN  [ret |-> RetArray(IF chans = "1"
                               THEN reshape(rev_array, size(array))
                               ELSE rev_array),
              out |-> <<>>]

\* ------------------------------------------------------------------ split.py
MonoMessage(nm) == <<nm, " is mono, import 2 channel audio array for splitting.">>

\* the two halves taken in the other order
hsplit_flatten_swapped(array, k) == MonoArray(Column(array, 3 - k))

\* np.hsplit(array, 2)[k].flatten(order='F') of a stereo array
hsplit_flatten(array, k) == MonoArray(Column(array, k))

split(array, chans, nm) ==
    IF chans = "1"
    THEN RetStr(MonoMessage(nm))
    ELSE RetTuple(<<hsplit_flatten(array, 1), hsplit_flatten(array, 2)>>)

\* ----------------------------------------------------------------- invert.py
\* every sample made negative, whatever its sign
invert_rectified(array) ==
    [shape |-> array.shape,
     data |-> [i \in 1..len(array) |->
        IF ndim(array) = 1
        THEN abs(array.data[i]) * (0 - 1)
        ELSE [c \in 1..array.shape[2] |-> abs(array.data[i][c]) * (0 - 1)]]]

\* array * -1
invert(array) ==
    [shape |-> array.shape,
     data |-> [i \in 1..len(array) |->
        IF ndim(array) = 1
        THEN array.data[i] * (0 - 1)
        ELSE [c \in 1..array.shape[2] |-> array.data[i][c] * (0 - 1)]]]

\* ------------------------------------------------ double-precision arithmetic
\* The dsp transforms compute in floating point.  A float is modelled at
\* reduced width: an integer count of a fixed power-of-two unit whose
\* significand has Precision bits, rounded to nearest, ties to even.  In the
\* dsp section the unit is one half, so the sample 1.0 is the integer 2.
Precision == 3

RECURSIVE Pow2(_)
Pow2(n) == IF n = 0 THEN 1 ELSE 2 * Pow2(n - 1)

\* the spacing of the floats around the magnitude x >= 0
RECURSIVE UlpFrom(_, _)
UlpFrom(x, step) ==
    IF x < Pow2(Precision) * step THEN step ELSE UlpFrom(x, 2 * step)

Ulp(x) == UlpFrom(x, 1)

RoundMagnitude(x) ==
    LET step == Ulp(x)
        q == x \div step
        r == x % step
    IN  IF 2 * r < step THEN q * step
        ELSE IF 2 * r > step THEN (q + 1) * step
        ELSE IF q % 2 = 0 THEN q * step
        ELSE (q + 1) * step

\* the float nearest to the exact value x
fl(x) == IF x < 0 THEN 0 - RoundMagnitude(0 - x) ELSE RoundMagnitude(x)

\* 0.5 * x: a change of exponent, exact on the even counts it is applied to
half(x) == x \div 2

\* --------------------------------------------------------------- midside.py
\* the sum and the difference left unscaled
EncodeFrame_unscaled(f) == <<fl(f[1] + f[2]), fl(f[1] - f[2])>>

\* mid = 0.5*(L+R), side = 0.5*(L-R)
EncodeFrame(f) == <<half(fl(f[1] + f[2])), half(fl(f[1] - f[2]))>>

\* decode that applies the encode matrix again instead of its inverse
DecodeFrame_halved(f) == <<half(fl(f[1] + f[2])), half(fl(f[1] - f[2]))>>

\* (L, R) = (mid+side, mid-side)
DecodeFrame(f) == <<fl(f[1] + f[2]), fl(f[1] - f[2])>>

\* a mono sample taken as the side, with zero mid
MonoFrame_side(v) == <<0, v>>

\* a mono sample encoded: the sample in the first column, zero in the second
MonoFrame(v) == <<v, 0>>

midside(array, chans, code) ==
    IF chans = "1"
    THEN RetArray(StereoArray([i \in 1..len(array) |-> MonoFrame(array.data[i])]))
    ELSE RetArray(StereoArray([i \in 1..len(array) |->
            IF code THEN EncodeFrame(array.data[i])
                    ELSE DecodeFrame(array.data[i])]))

\* ------------------------------------------------------------- normalize.py
RECURSIVE GCD(_, _)
GCD(a, b) == IF b = 0 THEN a ELSE GCD(b, a % b)

\* the quotient of the magnitude of x: the sign is lost
Quotient_abs(x, p) ==
    LET g == GCD(abs(x), p)
    IN  [num |-> abs(x) \div g, den |-> p \div g]

\* the quotient x / p for p > 0, as a fraction in lowest terms
Quotient(x, p) ==
    LET g == GCD(abs(x), p)
    IN  [num |-> x \div g, den |-> p \div g]

AbsSamples(array) ==
    {abs(Column(array, c)[i]) : c \in 1..ncols(array), i \in 1..len(array)}

SetMax(S) == CHOOSE m \in S : \A v \in S : v <= m

\* the peak of the first channel only
peak_first_column(array) ==
    SetMax({abs(Column(array, 1)[i]) : i \in 1..len(array)})

\* peak = max(|sample|) over all samples of a non-empty array
peak(array) == SetMax(AbsSamples(array))

\* normalize without the test for a zero peak: 0 / 0 is not a number
normalize_unguarded(array) ==
    RetTuple(<<[shape |-> array.shape,
                data |-> [i \in 1..len(array) |-> "nan"]], TRUE>>)

normalize(array) ==
    LET pk == peak(array)
    IN  IF pk = 0
        THEN RetTuple(<<array, FALSE>>)
        ELSE RetTuple(<<[shape |-> array.shape,
                         data |-> [i \in 1..len(array) |->
                            IF ndim(array) = 1
                            THEN Quotient(array.data[i], pk)
                            ELSE [c \in 1..array.shape[2] |->
                                    Quotient(array.data[i][c], pk)]]],
                        TRUE>>)

\* -------------------------------------------------------------- the caller
VARIABLES
    array,      \* the caller's current array
    channels,   \* its channel tag, "1" or "2"
    name,       \* the audio file name
    op,         \* the last call: [fn, subdivision]
    arg,        \* the array passed to the last call
    ret,        \* what the last call returned
    prev,       \* the call before the last: [fn, subdivision, arg]
    stdout,     \* lines written to the console
    held,       \* what the argument of the last call holds after the call
    shares,     \* the returned array shares memory with the argument
    pc,         \* concurrent calls: the statement each call is at
    locals,     \* concurrent calls: the local variables of the calls
    overlapped, \* concurrent calls: a call took a step while the other
                \* was between its first statement and its return
    state,      \* magnitude plot: the dictionary of state variables
    ax,         \* magnitude plot: the lines on the axes and the y label
    lrsums,     \* magnitude plot: the selected button of the channel selector
    lindB,      \* magnitude plot: the selected button of the scale selector
    pol_ax,     \* vectorscope: the polar axes
    float_ax    \* vectorscope: the Lissajous axes

vis_vars == <<state, ax, lrsums, lindB, pol_ax, float_ax>>

vars == <<array, channels, name, op, arg, ret, prev, stdout, held, shares,
          pc, locals, overlapped, state, ax, lrsums, lindB, pol_ax, float_ax>>

\* no plot has been made
NoPlot ==
    /\ state = <<>>
    /\ ax = <<>>
    /\ lrsums = "None"
    /\ lindB = "None"
    /\ pol_ax = <<>>
    /\ float_ax = <<>>

FileNames == {"tmp.wav"}

MonoArrays == {MonoArray(d) : d \in SeqsUpTo(MonoSamples, MaxMonoLen)}
StereoArrays ==
    {StereoArray(d) : d \in SeqsUpTo(StereoSamples \X StereoSamples, MaxStereoLen)}

NoCall == [fn |-> "import", subdivision |-> 0]
NoPrev == [fn |-> "none", subdivision |-> 0, arg |-> MonoArray(<<>>)]

Init ==
    /\ \/ channels = "1" /\ array \in MonoArrays
       \/ channels = "2" /\ array \in StereoArrays
    /\ name \in FileNames
    /\ op = NoCall
    /\ arg = array
    /\ ret = RetArray(array)
    /\ prev = NoPrev
    /\ stdout = <<>>
    /\ held = array
    /\ shares = FALSE
    /\ pc = <<>>
    /\ locals = <<>>
    /\ overlapped = FALSE
    /\ NoPlot

\* The numpy steps that lead from the argument of a call to the array it
\* returns: a "view" step returns an array on the memory of its operand, a
\* "copy" step returns an array on memory of its own.

\* trim without the .copy(): the slice itself is returned
trim_steps_view == <<"view">>

\* array[start:stop] is a view, .copy() is a copy
trim_steps == <<"view", "copy">>

\* np.split gives views, np.flip makes one new array of the list and flips
\* it as a view, np.row_stack concatenates into a new array, reshape is a
\* view of that
reverse_steps == <<"view", "copy", "view", "copy", "view">>

\* np.hsplit gives views, flatten copies
split_steps == <<"view", "copy">>

\* array * -1 is a new array
invert_steps == <<"copy">>

\* a dsp transform produces a new array
dsp_steps == <<"copy">>

MemorySteps(fn) ==
    CASE fn = "trim" -> trim_steps
      [] fn = "reverse" -> reverse_steps
      [] fn = "split" -> split_steps
      [] fn = "invert" -> invert_steps
      [] OTHER -> dsp_steps

SharesMemory(steps) == \A i \in 1..Len(steps) : steps[i] = "view"

\* the call stores its result into the memory of its argument: no transform
\* has a statement that assigns to the argument or to an element of it
InPlace(fn) == FALSE

\* the caller goes on with the returned array; a call that returned
\* anything else ends the sequence
CanCall == ret.kind = "array"

Called(fn, subdivision, r, out) ==
    /\ CanCall
    /\ op' = [fn |-> fn, subdivision |-> subdivision]
    /\ arg' = array
    /\ ret' = r
    /\ array' = IF r.kind = "array" THEN r.val ELSE array
    /\ prev' = [fn |-> op.fn, subdivision |-> op.subdivision, arg |-> arg]
    /\ stdout' = stdout \o out
    /\ held' = IF InPlace(fn) /\ r.kind = "array" THEN r.val ELSE array
    /\ shares' = (r.kind \in {"array", "tuple"} /\ SharesMemory(MemorySteps(fn)))
    /\ UNCHANGED <<channels, name, pc, locals, overlapped>>
    /\ UNCHANGED vis_vars

Trim == Called("trim", 0, trim(array), <<>>)

Reverse ==
    \E n \in 1..MaxSubdivision :
        LET r == reverse(array, channels, n)
        IN  Called("reverse", n, r.ret, r.out)

ReverseDefault ==
    LET r == reverse(array, channels, DefaultSubdivision)
    IN  Called("reverse", DefaultSubdivision, r.ret, r.out)

Split == Called("split", 0, split(array, channels, name), <<>>)

Invert == Called("invert", 0, RetArray(invert(array)), <<>>)

Next == Trim \/ Reverse \/ ReverseDefault \/ Split \/ Invert

Spec == Init /\ [][Next]_vars

\* ------------------------------------------------- the caller of the dsp
MaxDspMonoLen == 3
MaxDspStereoLen == 2

\* sample amplitudes in halves: 2 is the sample 1.0
DspSamples == {-32, -2, 0, 2, 14, 32}

NonEmptySeqsUpTo(S, n) == UNION {[1..k -> S] : k \in 1..n}

DspMonoArrays == {MonoArray(d) : d \in NonEmptySeqsUpTo(DspSamples, MaxDspMonoLen)}
DspStereoArrays ==
    {StereoArray(d) : d \in NonEmptySeqsUpTo(DspSamples \X DspSamples, MaxDspStereoLen)}

InitDsp ==
    /\ \/ channels = "1" /\ array \in DspMonoArrays
       \/ channels = "2" /\ array \in DspStereoArrays
    /\ name \in FileNames
    /\ op = NoCall
    /\ arg = array
    /\ ret = RetArray(array)
    /\ prev = NoPrev
    /\ stdout = <<>>
    /\ held = array
    /\ shares = FALSE
    /\ pc = <<>>
    /\ locals = <<>>
    /\ overlapped = FALSE
    /\ NoPlot

\* midside(array, channels): the imported array is encoded
MidsideEncode ==
    /\ op.fn = "import"
    /\ Called("midside_encode", 0, midside(array, channels, TRUE), <<>>)

\* midside(array, channels, False): a stereo array, imported or just
\* encoded, is decoded
MidsideDecode ==
    /\ channels = "2"
    /\ op.fn \in {"import", "midside_encode"}
    /\ Called("midside_decode", 0, midside(array, channels, FALSE), <<>>)

Normalize == Called("normalize", 0, normalize(array), <<>>)

NextDsp == MidsideEncode \/ MidsideDecode \/ Normalize

SpecDsp == InitDsp /\ [][NextDsp]_vars

\* ------------------------------------------------------- concurrent calls
\* Two calls of the transforms, each on an array of its own, run statement
\* by statement in any interleaving.  Here array, channels, op, arg, ret and
\* pc hold one value per call.
MaxParMonoLen == 2
MaxParStereoLen == 1

ParSamples == {0, 2}

Threads == {1, 2}

ParArrays ==
    [channels : {"1"}, array : {MonoArray(d) : d \in SeqsUpTo(ParSamples, MaxParMonoLen)}]
    \cup
    [channels : {"2"},
     array : {StereoArray(d) : d \in SeqsUpTo(ParSamples \X ParSamples, MaxParStereoLen)}]

ParCalls ==
    {[fn |-> "trim", subdivision |-> 0],
     [fn |-> "split", subdivision |-> 0],
     [fn |-> "invert", subdivision |-> 0]}
    \cup [fn : {"reverse"}, subdivision : 1..MaxSubdivision]

NoLocals == [mask1 |-> MonoArray(<<>>),
             rev_array |-> MonoArray(<<>>),
             array_list |-> <<>>]

\* every call keeps its local variables in one store for all calls
Local_module_level(t) == 1

\* the local variables of call t are in a frame of its own
Local(t) == t

InitPar ==
    /\ \E a \in [Threads -> ParArrays] :
          /\ array = [t \in Threads |-> a[t].array]
          /\ channels = [t \in Threads |-> a[t].channels]
    /\ op \in [Threads -> ParCalls]
    /\ name \in FileNames
    /\ arg = array
    /\ ret = [t \in Threads |-> RetNone]
    /\ prev = NoPrev
    /\ stdout = <<>>
    /\ held = array
    /\ shares = FALSE
    /\ pc = [t \in Threads |-> "call"]
    /\ locals = [t \in Threads |-> NoLocals]
    /\ overlapped = FALSE
    /\ NoPlot

InFlight(t) == pc[t] \notin {"call", "done"}

\* call t takes a step: its statement counter moves to next
Step(t, next) ==
    /\ pc' = [pc EXCEPT ![t] = next]
    /\ overlapped' = (overlapped \/ \E u \in Threads \ {t} : InFlight(u))
    /\ UNCHANGED <<array, channels, name, op, arg, prev, held, shares>>
    /\ UNCHANGED vis_vars

Return(t, r) ==
    /\ ret' = [ret EXCEPT ![t] = r]
    /\ Step(t, "done")

\* the return statement of trim, from the mask its first statement stored
trim_return(a, mask1) ==
    IF ArgmaxRaises(a)
    THEN RetRaise("ValueError")
    ELSE RetArray(Slice(a, amin(first_nonzero(a, mask1)),
                           amax(last_nonzero(a, mask1)) + 1))

\* trim: mask1 = mask(array)
ParTrimMask(t) ==
    /\ pc[t] = "call" /\ op[t].fn = "trim"
    /\ locals' = [locals EXCEPT ![Local(t)].mask1 = mask(array[t])]
    /\ Step(t, "trim_return")
    /\ UNCHANGED <<ret, stdout>>

\* trim: return array[...].copy()
ParTrimReturn(t) ==
    /\ pc[t] = "trim_return"
    /\ Return(t, trim_return(array[t], locals[Local(t)].mask1))
    /\ UNCHANGED <<locals, stdout>>

\* reverse: if len(array) % subdivision != 0: print(...)
ParReverseCheck(t) ==
    /\ pc[t] = "call" /\ op[t].fn = "reverse"
    /\ IF len(array[t]) % op[t].subdivision # 0
       THEN /\ stdout' = stdout \o <<ErrorLine>>
            /\ Return(t, RetNone)
       ELSE /\ Step(t, "reverse_stack")
            /\ UNCHANGED <<ret, stdout>>
    /\ UNCHANGED locals

\* reverse: rev_array = np.row_stack(np.flip(np.split(...), axis=1))
ParReverseStack(t) ==
    /\ pc[t] = "reverse_stack"
    /\ locals' = [locals EXCEPT ![Local(t)].rev_array =
                    np_row_stack(np_flip(np_split(array[t], op[t].subdivision)))]
    /\ Step(t, IF channels[t] = "1" THEN "reverse_reshape" ELSE "reverse_return")
    /\ UNCHANGED <<ret, stdout>>

\* reverse: rev_array = rev_array.reshape(array.size)
ParReverseReshape(t) ==
    /\ pc[t] = "reverse_reshape"
    /\ locals' = [locals EXCEPT ![Local(t)].rev_array =
                    reshape(locals[Local(t)].rev_array, size(array[t]))]
    /\ Step(t, "reverse_return")
    /\ UNCHANGED <<ret, stdout>>

\* reverse: return rev_array
ParReverseReturn(t) ==
    /\ pc[t] = "reverse_return"
    /\ Return(t, RetArray(locals[Local(t)].rev_array))
    /\ UNCHANGED <<locals, stdout>>

\* split: the mono case, or array_list = np.hsplit(array, 2)
ParSplitHsplit(t) ==
    /\ pc[t] = "call" /\ op[t].fn = "split"
    /\ IF channels[t] = "1"
       THEN /\ Return(t, RetStr(MonoMessage(name)))
            /\ UNCHANGED locals
       ELSE /\ locals' = [locals EXCEPT ![Local(t)].array_list =
                            <<Column(array[t], 1), Column(array[t], 2)>>]
            /\ Step(t, "split_return")
            /\ UNCHANGED ret
    /\ UNCHANGED stdout

\* split: left, right = the halves flattened; return left, right
ParSplitReturn(t) ==
    /\ pc[t] = "split_return"
    /\ Return(t, RetTuple(<<MonoArray(locals[Local(t)].array_list[1]),
                            MonoArray(locals[Local(t)].array_list[2])>>))
    /\ UNCHANGED <<locals, stdout>>

\* invert: return array * -1
ParInvert(t) ==
    /\ pc[t] = "call" /\ op[t].fn = "invert"
    /\ Return(t, RetArray(invert(array[t])))
    /\ UNCHANGED <<locals, stdout>>

NextPar ==
    \E t \in Threads :
        \/ ParTrimMask(t)
        \/ ParTrimReturn(t)
        \/ ParReverseCheck(t)
        \/ ParReverseStack(t)
        \/ ParReverseReshape(t)
        \/ ParReverseReturn(t)
        \/ ParSplitHsplit(t)
        \/ ParSplitReturn(t)
        \/ ParInvert(t)

SpecPar == InitPar /\ [][NextPar]_vars

\* ------------------------------------------------------------ magnitude.py
\* The plot functions are called on an imported array that has frames; the
\* callbacks of their radio buttons then run one at a time, each to its end
\* before the next.  Samples are in halves, as in the dsp section.
MaxVisMonoLen == 2
MaxVisStereoLen == 2

VisSamples == {-2, 0, 2}

VisMonoArrays == {MonoArray(d) : d \in NonEmptySeqsUpTo(VisSamples, MaxVisMonoLen)}
VisStereoArrays ==
    {StereoArray(d) : d \in NonEmptySeqsUpTo(VisSamples \X VisSamples, MaxVisStereoLen)}

\* what the variables of the transform calls hold while a plot is shown
PlotCalled ==
    /\ \/ channels = "1" /\ array \in VisMonoArrays
       \/ channels = "2" /\ array \in VisStereoArrays
    /\ name \in FileNames
    /\ op = NoCall
    /\ arg = array
    /\ ret = RetArray(array)
    /\ prev = NoPrev
    /\ stdout = <<>>
    /\ held = array
    /\ shares = FALSE
    /\ pc = <<>>
    /\ locals = <<>>
    /\ overlapped = FALSE

\* Axes.magnitude_spectrum(x, Fs, scale): the line of the spectrum of x, in
\* energy units for the scales None, 'default' and 'linear', in dB for 'dB'
magnitude_spectrum(x, scl) ==
    [x |-> x, units |-> IF scl = "dB" THEN "dB" ELSE "energy"]

\* Artist.remove(): the line leaves the list of lines of its axes
RECURSIVE remove(_, _)
remove(lines, line) ==
    IF lines = <<>> THEN <<>>
    ELSE IF Head(lines) = line THEN Tail(lines)
    ELSE <<Head(lines)>> \o remove(Tail(lines), line)

\* np.sum(array, axis=1)
sumsig(a) == MonoArray([i \in 1..len(a) |-> fl(a.data[i][1] + a.data[i][2])])

\* midside(array, channels, name): the file name is passed where midside
\* takes its direction flag, and a non-empty string counts as true
msarray(a, chans, nm) == midside(a, chans, nm # "").val

LrsumsLabels == {"L", "R", "SUM", "MID", "SIDE"}
LindBLabels == {"LIN", "dB"}

\* the state dictionary, the axes and the two selectors when magnitude()
\* has set up the plot
MagnitudeStateMono(a) ==
    [LIN |-> "linear", dB |-> "dB", scale |-> "linear",
     line |-> magnitude_spectrum(a, "default"), data |-> a]

MagnitudeStateStereo(a, chans, nm) ==
    LET left == split(a, chans, nm).val[1]
        right == split(a, chans, nm).val[2]
        ms == msarray(a, chans, nm)
    IN  [LIN |-> "linear", dB |-> "dB", scale |-> "linear",
         L |-> left, R |-> right, SUM |-> sumsig(a),
         MID |-> split(ms, chans, nm).val[1],
         SIDE |-> split(ms, chans, nm).val[2],
         data |-> left,
         line |-> magnitude_spectrum(left, "default")]

InitMagnitude ==
    /\ PlotCalled
    /\ state = IF channels = "1"
               THEN MagnitudeStateMono(array)
               ELSE MagnitudeStateStereo(array, channels, name)
    /\ ax = [lines |-> <<state.line>>, ylabel |-> <<"MAGNITUDE", "LIN">>]
    /\ lrsums = IF channels = "2" THEN "L" ELSE "None"
    /\ lindB = "LIN"
    /\ pol_ax = <<>>
    /\ float_ax = <<>>

\* side with the spectrum plotted at the default scale
side_default_scale(label, st, axes) ==
    LET line == magnitude_spectrum(st[label], "default")
    IN  [state |-> [st EXCEPT !.line = line, !.data = st[label]],
         ax |-> [lines |-> Append(remove(axes.lines, st.line), line),
                 ylabel |-> <<"MAGNITUDE", st.scale>>]]

\* the callback of the channel selector
side(label, st, axes) ==
    LET line == magnitude_spectrum(st[label], st.scale)
    IN  [state |-> [st EXCEPT !.line = line, !.data = st[label]],
         ax |-> [lines |-> Append(remove(axes.lines, st.line), line),
                 ylabel |-> <<"MAGNITUDE", st.scale>>]]

\* the callback of the scale selector
scale(label, st, axes) ==
    LET line == magnitude_spectrum(st.data, st[label])
    IN  [state |-> [st EXCEPT !.line = line, !.scale = st[label]],
         ax |-> [lines |-> Append(remove(axes.lines, st.line), line),
                 ylabel |-> <<"MAGNITUDE", label>>]]

\* a callback ran: op is the callback and its label, arg what the plot held
\* when it was called
Clicked(fn, label, before) ==
    /\ op' = [fn |-> fn, label |-> label]
    /\ arg' = before
    /\ UNCHANGED <<array, channels, name, ret, prev, stdout, held, shares,
                   pc, locals, overlapped>>

\* a click on a button of the channel selector, which a stereo plot has
Side ==
    /\ channels = "2"
    /\ \E label \in LrsumsLabels :
          LET r == side(label, state, ax)
          IN  /\ lrsums' = label
              /\ state' = r.state
              /\ ax' = r.ax
              /\ Clicked("side", label, state)
    /\ UNCHANGED <<lindB, pol_ax, float_ax>>

\* a click on a button of the scale selector
Scale ==
    /\ \E label \in LindBLabels :
          LET r == scale(label, state, ax)
          IN  /\ lindB' = label
              /\ state' = r.state
              /\ ax' = r.ax
              /\ Clicked("scale", label, state)
    /\ UNCHANGED <<lrsums, pol_ax, float_ax>>

NextMagnitude == Side \/ Scale

SpecMagnitude == InitMagnitude /\ [][NextMagnitude]_vars

\* ---------------------------------------------------------- vectorscope.py
\* a mono array is halved and doubled up into two equal channels
doubled(a, chans) ==
    IF chans = "1"
    THEN StereoArray([i \in 1..len(a) |-> <<half(a.data[i]), half(a.data[i])>>])
    ELSE a

\* np.where(mask2, np.absolute(array), np.negative(array)): a frame whose
\* samples agree in sign is made positive, any other frame is negated
PolarFrame(f) ==
    IF (f[1] < 0) = (f[2] < 0)
    THEN <<abs(f[1]), abs(f[2])>>
    ELSE <<0 - f[1], 0 - f[2]>>

\* the points plotted on each axes: (right, left) per frame
LissajousPoints(a) == [i \in 1..len(a) |-> <<a.data[i][2], a.data[i][1]>>]

PolarPoints(a) ==
    [i \in 1..len(a) |->
        <<PolarFrame(a.data[i])[2], PolarFrame(a.data[i])[1]>>]

PolarlissaLabels == {"Polar", "Lissajous"}

InitVectorscope ==
    /\ PlotCalled
    /\ float_ax = [visible |-> TRUE,
                   points |-> LissajousPoints(doubled(array, channels))]
    /\ pol_ax = [visible |-> FALSE,
                 points |-> PolarPoints(doubled(array, channels))]
    /\ state = <<>>
    /\ ax = <<>>
    /\ lrsums = "None"
    /\ lindB = "None"

\* choose_plot that shows the polar axes without hiding the other
choose_plot_both_shown(label, pol, flt) ==
    LET p1 == IF label = "Lissajous" THEN [pol EXCEPT !.visible = FALSE] ELSE pol
        f1 == IF label = "Lissajous" THEN [flt EXCEPT !.visible = TRUE] ELSE flt
        p2 == IF label = "Polar" THEN [p1 EXCEPT !.visible = TRUE] ELSE p1
    IN  [pol_ax |-> p2, float_ax |-> f1]

\* the callback of the Polar/Lissajous selector
choose_plot(label, pol, flt) ==
    LET p1 == IF label = "Lissajous" THEN [pol EXCEPT !.visible = FALSE] ELSE pol
        f1 == IF label = "Lissajous" THEN [flt EXCEPT !.visible = TRUE] ELSE flt
        p2 == IF label = "Polar" THEN [p1 EXCEPT !.visible = TRUE] ELSE p1
        f2 == IF label = "Polar" THEN [f1 EXCEPT !.visible = FALSE] ELSE f1
    IN  [pol_ax |-> p2, float_ax |-> f2]

ChoosePlot ==
    /\ \E label \in PolarlissaLabels :
          LET r == choose_plot(label, pol_ax, float_ax)
          IN  /\ pol_ax' = r.pol_ax
              /\ float_ax' = r.float_ax
              /\ Clicked("choose_plot", label,
                         [pol_ax |-> pol_ax, float_ax |-> float_ax])
    /\ UNCHANGED <<state, ax, lrsums, lindB>>

NextVectorscope == ChoosePlot

SpecVectorscope == InitVectorscope /\ [][NextVectorscope]_vars

\* ---------------------------------------------------- vocabulary of claims
\* a sample is silent iff its absolute value does not exceed Epsilon
SilentSample(v) == abs(v) <= Epsilon

Sample(a, i, c) == IF ndim(a) = 1 THEN a.data[i] ELSE a.data[i][c]

\* frame i (1-based) of a is silent in every channel
SilentFrame(a, i) == \A c \in 1..ncols(a) : SilentSample(Sample(a, i, c))

AllSilent(a) == \A i \in 1..len(a) : SilentFrame(a, i)

\* the frames s .. e-1 (0-based) of a, as an array of a's arity
Crop(a, s, e) ==
    [shape |-> <<e - s>> \o Tail(a.shape), data |-> SubSeq(a.data, s + 1, e)]

SameArray(a, b) == a.shape = b.shape /\ a.data = b.data

TrimReturned == op.fn = "trim" /\ ret.kind = "array"

\* ------------------------------------------------------------------ claims

\* C1: trim keeps every frame in which at least one channel is non-silent;
\* the only frames it removes are leading and trailing frames that are
\* silent in every channel.
C1_TrimKeepsEveryNonSilentFrame ==
    TrimReturned =>
        \E s \in 0..len(arg) : \E e \in s..len(arg) :
            /\ SameArray(ret.val, Crop(arg, s, e))
            /\ \A i \in 1..len(arg) : (i <= s \/ i > e) => SilentFrame(arg, i)

\* C2: trim is idempotent for all inputs: trim(trim(x)) is defined and
\* equals trim(x).  Stated of a trim call made on what a trim call returned.
C2_TrimIdempotent ==
    (op.fn = "trim" /\ prev.fn = "trim") =>
        ret.kind = "array" /\ SameArray(ret.val, arg)

\* C3: for a non-empty array that is silent in every channel at every
\* frame, trim returns an empty array of the same arity; it does not raise
\* and returns no other slice.
C3_AllSilentTrimsToEmpty ==
    (op.fn = "trim" /\ len(arg) > 0 /\ AllSilent(arg)) =>
        /\ ret.kind = "array"
        /\ ret.val.shape = <<0>> \o Tail(arg.shape)
        /\ ret.val.data = <<>>

C3_Witness ==
    /\ op.fn = "trim"
    /\ ndim(arg) = 2
    /\ len(arg) >= 2
    /\ AllSilent(arg)
    /\ \E i \in 1..len(arg) : arg.data[i][1] # 0
    /\ ret.kind = "array"

\* C4: reverse fails with an explicit InvalidSubdivision error whenever
\* len(x) % n # 0.
C4_InvalidSubdivisionRaised ==
    (op.fn = "reverse" /\ len(arg) % op.subdivision # 0) =>
        ret.kind = "raise" /\ ret.val = "InvalidSubdivision"

\* C5: split called with the mono channel tag fails with an explicit
\* WrongChannelCount error instead of producing a normal result.
C5_WrongChannelCountRaised ==
    (op.fn = "split" /\ channels = "1") =>
        ret.kind = "raise" /\ ret.val = "WrongChannelCount"

\* C6: reverse is an involution: reversing what reverse returned, with the
\* same subdivision, gives back the original array in values, order and
\* shape.
ReversedTwice ==
    /\ op.fn = "reverse"
    /\ prev.fn = "reverse"
    /\ prev.subdivision = op.subdivision

C6_ReverseInvolution ==
    ReversedTwice => ret.kind = "array" /\ SameArray(ret.val, prev.arg)

C6_Witness ==
    /\ ReversedTwice
    /\ op.subdivision = 2
    /\ len(prev.arg) >= 4
    /\ ~SameArray(arg, prev.arg)
    /\ ret.kind = "array"

\* C7: with segment length L = N / n, reverse places at output position
\* k*L + j the input frame at position k*L + (L-1-j), for every segment k
\* and offset j: segments keep their order, frames inside a segment are
\* reversed, a stereo frame keeps its (left, right) arrangement, and the
\* default subdivision 1 reverses the whole array;
\* reverse([1,2,3,4], 2) = [2,1,4,3].
C7_ReversePositions ==
    /\ (op.fn = "reverse" /\ len(arg) % op.subdivision = 0) =>
          LET n == op.subdivision
              L == len(arg) \div n
          IN  /\ ret.kind = "array"
              /\ ret.val.shape = arg.shape
              /\ \A k \in 0..(n - 1) : \A j \in 0..(L - 1) :
                    ret.val.data[k * L + j + 1] = arg.data[k * L + (L - 1 - j) + 1]
    /\ DefaultSubdivision = 1
    /\ reverse(MonoArray(<<1, 2, 3, 4>>), "1", 2).ret
          = RetArray(MonoArray(<<2, 1, 4, 3>>))

C7_Witness ==
    /\ op.fn = "reverse"
    /\ op.subdivision = 2
    /\ len(arg) >= 4
    /\ ret.kind = "array"
    /\ arg.data[1] # arg.data[2]
    /\ arg.data[3] # arg.data[4]
    /\ arg.data[1] # arg.data[3]

\* C8: for a stereo array x of N frames, split returns (L, R) with
\* len(L) = len(R) = N, L[i] = x[i][0] and R[i] = x[i][1], so interleaving
\* (L[i], R[i]) in index order reconstructs x;
\* split([[1,4],[2,5],[3,6]]) = ([1,2,3],[4,5,6]).
Interleave(l, r) == StereoArray([i \in 1..len(l) |-> <<l.data[i], r.data[i]>>])

C8_SplitRoundTrip ==
    /\ (op.fn = "split" /\ channels = "2") =>
          /\ ret.kind = "tuple"
          /\ Len(ret.val) = 2
          /\ ret.val[1].shape = <<len(arg)>>
          /\ ret.val[2].shape = <<len(arg)>>
          /\ \A i \in 1..len(arg) :
                /\ ret.val[1].data[i] = arg.data[i][1]
                /\ ret.val[2].data[i] = arg.data[i][2]
          /\ SameArray(Interleave(ret.val[1], ret.val[2]), arg)
    /\ split(StereoArray(<<<<1, 4>>, <<2, 5>>, <<3, 6>>>>), "2", "tmp.wav")
          = RetTuple(<<MonoArray(<<1, 2, 3>>), MonoArray(<<4, 5, 6>>)>>)

C8_Witness ==
    /\ op.fn = "split"
    /\ channels = "2"
    /\ len(arg) >= 2
    /\ ret.kind = "tuple"
    /\ ret.val[1].data # ret.val[2].data

\* C9: trim(x) equals x whenever, in every channel, both the first sample
\* and the last sample of x are non-silent.
NoSilentEnds(a) ==
    /\ len(a) > 0
    /\ \A c \in 1..ncols(a) :
          /\ ~SilentSample(Sample(a, 1, c))
          /\ ~SilentSample(Sample(a, len(a), c))

C9_TrimFixesUntrimmable ==
    (op.fn = "trim" /\ NoSilentEnds(arg)) =>
        ret.kind = "array" /\ SameArray(ret.val, arg)

C9_Witness ==
    /\ op.fn = "trim"
    /\ NoSilentEnds(arg)
    /\ ndim(arg) = 2
    /\ len(arg) >= 3
    /\ SilentFrame(arg, 2)
    /\ ret.kind = "array"

\* C10: trim is a pure crop: whatever it returns is a contiguous run of
\* frames of its input, every kept frame identical to the input's in
\* samples, order and channel arrangement.
C10_TrimIsPureCrop ==
    TrimReturned =>
        \E s \in 0..len(arg) : \E e \in s..len(arg) :
            SameArray(ret.val, Crop(arg, s, e))

C10_Witness ==
    /\ TrimReturned
    /\ ndim(arg) = 2
    /\ len(ret.val) >= 2
    /\ len(ret.val) < len(arg)
    /\ ret.val.data[1] # ret.val.data[2]

\* C11: mid/side round trip: decoding the encoding of a finite stereo
\* array x returns x frame by frame.  Stated of a decode call made on what
\* an encode call returned.
RoundTripped == op.fn = "midside_decode" /\ prev.fn = "midside_encode"

ExactSums(f) == fl(f[1] + f[2]) = f[1] + f[2] /\ fl(f[1] - f[2]) = f[1] - f[2]

Identity2 == StereoArray(<<<<2, 0>>, <<0, 2>>>>)
Encoded2 == StereoArray(<<<<1, 1>>, <<1, -1>>>>)

C12_MidSideLinearMap ==
    /\ (op.fn = "midside_encode" /\ channels = "2") =>
          /\ ret.kind = "array"
          /\ ret.val.shape = arg.shape
          /\ \A i \in 1..len(arg) :
                /\ 2 * ret.val.data[i][1] = fl(arg.data[i][1] + arg.data[i][2])
                /\ 2 * ret.val.data[i][2] = fl(arg.data[i][1] - arg.data[i][2])
    /\ op.fn = "midside_decode" =>
          /\ ret.kind = "array"
          /\ ret.val.shape = arg.shape
          /\ \A i \in 1..len(arg) :
                /\ ret.val.data[i][1] = fl(arg.data[i][1] + arg.data[i][2])
                /\ ret.val.data[i][2] = fl(arg.data[i][1] - arg.data[i][2])
    /\ midside(Identity2, "2", TRUE) = RetArray(Encoded2)
    /\ midside(Encoded2, "2", FALSE) = RetArray(Identity2)

C12_Witness ==
    /\ op.fn = "midside_encode"
    /\ channels = "2"
    /\ len(arg) >= 2
    /\ ret.kind = "array"
    /\ arg.data[1][1] # arg.data[1][2]
    /\ arg.data[1][2] # 0
    /\ ret.val.data[1][2] < 0

OutSamples(a) ==
    {(IF ndim(a) = 1 THEN a.data[i] ELSE a.data[i][c]) :
        c \in 1..ncols(a), i \in 1..len(a)}

NonZeroArray(a) == \E v \in AbsSamples(a) : v # 0

Normalized == op.fn = "normalize"

\* C14: for an array with at least one non-zero sample, normalize returns
\* (y, applied) with applied = true and the maximum of |y| over all samples
\* equal to 1.
C14_NormalizedPeakIsOne ==
    (Normalized /\ NonZeroArray(arg)) =>
        /\ ret.kind = "tuple"
        /\ ret.val[2] = TRUE
        /\ ret.val[1].shape = arg.shape
        /\ \A y \in OutSamples(ret.val[1]) : abs(y.num) <= y.den
        /\ \E y \in OutSamples(ret.val[1]) : abs(y.num) = y.den

C14_Witness ==
    /\ Normalized
    /\ ndim(arg) = 2
    /\ len(arg) >= 2
    /\ ret.kind = "tuple"
    /\ ret.val[2] = TRUE
    /\ abs(arg.data[1][1]) < abs(arg.data[2][2])
    /\ arg.data[1][1] # 0
    /\ abs(arg.data[2][1]) < abs(arg.data[2][2])

\* C15: for a fully silent array (peak = 0) of any length, normalize
\* returns the input unchanged together with applied = false, and does not
\* signal a failure.
C15_SilentNormalizeUnchanged ==
    (Normalized /\ ~NonZeroArray(arg)) =>
        /\ ret.kind = "tuple"
        /\ ret.val[2] = FALSE
        /\ SameArray(ret.val[1], arg)

C15_Witness ==
    /\ Normalized
    /\ ~NonZeroArray(arg)
    /\ len(arg) >= 2
    /\ ret.kind = "tuple"

\* C16: when the peak is non-zero normalize returns exactly array / peak:
\* every output sample is the input sample divided by the same positive
\* peak, so sign and relative order are preserved and zero stays zero;
\* normalize([-50, -25, 0, 25, 50]) = ([-1, -0.5, 0, 0.5, 1], true).
Sign(v) == IF v < 0 THEN 0 - 1 ELSE IF v > 0 THEN 1 ELSE 0

InSample(a, i, c) == IF ndim(a) = 1 THEN a.data[i] ELSE a.data[i][c]

Positions(a) == (1..len(a)) \X (1..ncols(a))

C16_NormalizeDividesByPeak ==
    /\ (Normalized /\ NonZeroArray(arg)) =>
          /\ ret.kind = "tuple"
          /\ ret.val[2] = TRUE
          /\ ret.val[1].shape = arg.shape
          /\ \E p \in AbsSamples(arg) :
                /\ p > 0
                /\ \A v \in AbsSamples(arg) : v <= p
                /\ \A q \in Positions(arg) :
                      LET x == InSample(arg, q[1], q[2])
                          y == InSample(ret.val[1], q[1], q[2])
                      IN  /\ y.den > 0
                          /\ y.num * p = x * y.den
                          /\ Sign(y.num) = Sign(x)
          /\ \A q \in Positions(arg) : \A r \in Positions(arg) :
                LET x1 == InSample(arg, q[1], q[2])
                    x2 == InSample(arg, r[1], r[2])
                    y1 == InSample(ret.val[1], q[1], q[2])
                    y2 == InSample(ret.val[1], r[1], r[2])
                IN  x1 <= x2 => y1.num * y2.den <= y2.num * y1.den
    /\ normalize(MonoArray(<<-50, -25, 0, 25, 50>>))
          = RetTuple(<<MonoArray(<<[num |-> 0 - 1, den |-> 1],
                                   [num |-> 0 - 1, den |-> 2],
                                   [num |-> 0, den |-> 1],
                                   [num |-> 1, den |-> 2],
                                   [num |-> 1, den |-> 1]>>), TRUE>>)

C16_Witness ==
    /\ Normalized
    /\ ndim(arg) = 1
    /\ len(arg) >= 3
    /\ ret.kind = "tuple"
    /\ ret.val[2] = TRUE
    /\ arg.data[1] < 0
    /\ arg.data[2] = 0
    /\ arg.data[3] > 0
    /\ abs(arg.data[1]) < arg.data[3]
    /\ ret.val[1].data[1].den > 1

\* C17: no transform mutates its input: after any call of trim, reverse,
\* split or invert, on a valid input or not, the caller's input array holds
\* the values it held before the call, and what is returned does not share
\* memory with the input.
UtilCalled == op.fn \in {"trim", "reverse", "split", "invert"}

C18_NoDiagnosticsNoSentinel ==
    op.fn \in {"trim", "reverse", "split"} =>
        stdout = <<>> /\ ret.kind \notin {"str", "None"}

\* C19: transform calls on independent arrays do not interfere: in every
\* interleaving of the statements of two calls, each call returns what it
\* returns when run alone on its array, whichever call comes first, with no
\* lock and no state carried from one call to the other.
Alone(t) ==
    CASE op[t].fn = "trim" -> trim(array[t])
      [] op[t].fn = "reverse" -> reverse(array[t], channels[t], op[t].subdivision).ret
      [] op[t].fn = "split" -> split(array[t], channels[t], name)
      [] op[t].fn = "invert" -> RetArray(invert(array[t]))

C19_NoInterference ==
    \A t \in Threads :
        pc[t] = "done" => /\ ret[t] = Alone(t)
                          /\ SameArray(array[t], arg[t])

C19_Witness ==
    /\ \A t \in Threads : pc[t] = "done"
    /\ overlapped
    /\ op[1].fn = "trim"
    /\ op[2].fn = "trim"
    /\ channels[1] = channels[2]
    /\ locals[1].mask1 # locals[2].mask1
    /\ ret[1] # ret[2]
    /\ ret[1].kind = "array"
    /\ ret[2].kind = "array"

\* C20: the slice trim returns starts at the minimum over channels of the
\* per-channel first non-silent frame index and ends, inclusive, at the
\* maximum over channels of the per-channel last non-silent frame index: it
\* runs from the earliest signal in any channel to the latest signal in any
\* channel.  Indices are 0-based.
HasSignal(a, c) == \E i \in 1..len(a) : ~SilentSample(Sample(a, i, c))

SignalChannels(a) == {c \in 1..ncols(a) : HasSignal(a, c)}

FirstSignal(a, c) ==
    (CHOOSE i \in 1..len(a) :
        /\ ~SilentSample(Sample(a, i, c))
        /\ \A j \in 1..(i - 1) : SilentSample(Sample(a, j, c))) - 1

LastSignal(a, c) ==
    (CHOOSE i \in 1..len(a) :
        /\ ~SilentSample(Sample(a, i, c))
        /\ \A j \in (i + 1)..len(a) : SilentSample(Sample(a, j, c))) - 1

EarliestSignal(a) ==
    CHOOSE s \in {FirstSignal(a, c) : c \in SignalChannels(a)} :
        \A c \in SignalChannels(a) : s <= FirstSignal(a, c)

LatestSignal(a) ==
    CHOOSE e \in {LastSignal(a, c) : c \in SignalChannels(a)} :
        \A c \in SignalChannels(a) : e >= LastSignal(a, c)

C20_TrimFromEarliestToLatestSignal ==
    (TrimReturned /\ SignalChannels(arg) # {}) =>
        SameArray(ret.val, Crop(arg, EarliestSignal(arg), LatestSignal(arg) + 1))

\* C21: for each channel independently, first_nonzero returns the smallest
\* frame index at which the channel's mask is true and last_nonzero the
\* largest (so first <= last, and they are equal iff the channel has exactly
\* one non-silent frame); both return the sentinel -1 exactly when the
\* channel is silent at every frame.  Stated of the two calls that trim
\* makes on its argument.  Indices are 0-based.
SignalFrames(a, c) == {i \in 1..len(a) : ~SilentSample(Sample(a, i, c))}

C21_FirstLastNonzeroPerChannel ==
    op.fn = "trim" =>
        LET r == nonzero_bounds(arg)
        IN  /\ r.kind = "tuple"
            /\ \A c \in 1..ncols(arg) :
                  LET first == r.val[1][c]
                      last == r.val[2][c]
                      S == SignalFrames(arg, c)
                  IN  IF S = {}
                      THEN first = InvalidVal /\ last = InvalidVal
                      ELSE /\ first + 1 \in S
                           /\ \A i \in S : first + 1 <= i
                           /\ last + 1 \in S
                           /\ \A i \in S : i <= last + 1
                           /\ first <= last
                           /\ (first = last <=> Cardinality(S) = 1)

\* C22: the non-silence mask has the shape of the array and is true at a
\* position iff the sample's absolute value strictly exceeds Epsilon:
\* samples equal to +Epsilon, -Epsilon or 0 are silent, and a sample and its
\* negation get the same mask value.  Stated of the mask that trim takes of
\* its argument.
MaskAt(m, i, c) == IF ndim(m) = 1 THEN m.data[i] ELSE m.data[i][c]

C22_MaskStrictlyAboveEpsilon ==
    op.fn = "trim" =>
        LET m == mask(arg)
            n == mask(invert(arg))
        IN  /\ m.shape = arg.shape
            /\ Len(m.data) = Len(arg.data)
            /\ \A p \in Positions(arg) :
                  LET v == Sample(arg, p[1], p[2])
                  IN  /\ MaskAt(m, p[1], p[2]) \in BOOLEAN
                      /\ MaskAt(m, p[1], p[2]) <=> (v > Epsilon \/ v < 0 - Epsilon)
                      /\ v \in {Epsilon, 0 - Epsilon, 0} => ~MaskAt(m, p[1], p[2])
                      /\ MaskAt(n, p[1], p[2]) = MaskAt(m, p[1], p[2])

C22_Witness ==
    /\ op.fn = "trim"
    /\ ndim(arg) = 1
    /\ {Epsilon, 0 - Epsilon, 0} \subseteq {arg.data[i] : i \in 1..len(arg)}
    /\ \E i \in 1..len(arg) : mask(arg).data[i]

\* C23: invert returns an array of the same shape in which every sample is
\* the negation of the input sample, so invert(invert(x)) = x for every
\* array x, and trim(invert(x)) = invert(trim(x)): trimming an inverted
\* array comes to what inverting the trimmed array comes to.
InvertOfTrim(x) ==
    LET t == trim(x)
    IN  IF t.kind = "array" THEN RetArray(invert(t.val)) ELSE t

C23_InvertNegatesAndCommutesWithTrim ==
    /\ op.fn = "invert" =>
          /\ ret.kind = "array"
          /\ ret.val.shape = arg.shape
          /\ Len(ret.val.data) = Len(arg.data)
          /\ \A p \in Positions(arg) :
                Sample(ret.val, p[1], p[2]) + Sample(arg, p[1], p[2]) = 0
    /\ (op.fn = "invert" /\ prev.fn = "invert") =>
          SameArray(ret.val, prev.arg)
    /\ (op.fn = "trim" /\ prev.fn = "invert") =>
          ret = InvertOfTrim(prev.arg)

C23_Witness ==
    /\ op.fn = "trim"
    /\ prev.fn = "invert"
    /\ ndim(arg) = 2
    /\ ret.kind = "array"
    /\ len(ret.val) >= 2
    /\ len(ret.val) < len(arg)
    /\ \E i \in 1..len(arg) : \E c \in 1..2 :
          arg.data[i][c] > 0 /\ prev.arg.data[i][c] < 0

\* C24: whenever trim returns a non-empty array, its first frame and its
\* last frame each contain at least one non-silent sample: the result has
\* no leading and no trailing all-silent frame, for every mono or stereo
\* input.
C24_TrimmedEndsCarrySignal ==
    (TrimReturned /\ len(ret.val) > 0) =>
        /\ ~SilentFrame(ret.val, 1)
        /\ ~SilentFrame(ret.val, len(ret.val))

C24_Witness ==
    /\ TrimReturned
    /\ len(ret.val) >= 3
    /\ len(ret.val) < len(arg)
    /\ SilentFrame(ret.val, 2)
    /\ SilentFrame(arg, 1)

\* C25: trim is total on the empty input: applied to an array with zero
\* frames, mono or stereo, it returns an empty array and does not raise.
C25_TrimTotalOnEmpty ==
    (op.fn = "trim" /\ len(arg) = 0) =>
        /\ ret.kind = "array"
        /\ ret.val.shape = arg.shape
        /\ ret.val.data = <<>>

\* C26: whole-array reversal commutes with trimming: for every mono or
\* stereo array x with its matching channel tag c, trim(reverse(x, c, 1))
\* equals reverse(trim(x), c, 1).  Stated of a trim call made on what
\* reverse with subdivision 1 returned.
ReverseOfTrim(x, c) ==
    LET t == trim(x)
    IN  IF t.kind = "array" THEN reverse(t.val, c, 1).ret ELSE t

C26_ReverseCommutesWithTrim ==
    (op.fn = "trim" /\ prev.fn = "reverse" /\ prev.subdivision = 1) =>
        ret = ReverseOfTrim(prev.arg, channels)

\* C27: for every array x with its matching channel tag and every positive
\* n dividing len(x), reverse returns an array of the shape of x (same
\* frame count and arity, a flat sequence for mono) whose frames are a
\* permutation of the frames of x; when n = len(x) the result equals x.
Occurrences(a, f) == Cardinality({i \in 1..Len(a.data) : a.data[i] = f})

FramesOf(a) == {a.data[i] : i \in 1..Len(a.data)}

C27_ReversePermutesFrames ==
    (op.fn = "reverse" /\ len(arg) % op.subdivision = 0) =>
        /\ ret.kind = "array"
        /\ ret.val.shape = arg.shape
        /\ Len(ret.val.data) = len(arg)
        /\ \A f \in FramesOf(arg) \cup FramesOf(ret.val) :
              Occurrences(ret.val, f) = Occurrences(arg, f)
        /\ op.subdivision = len(arg) => SameArray(ret.val, arg)

\* a mono array reversed whole, which changed it, and then reversed with
\* n = len(x)
C27_Witness ==
    /\ op.fn = "reverse"
    /\ op.subdivision = 2
    /\ ndim(arg) = 1
    /\ len(arg) = 2
    /\ ret.kind = "array"
    /\ prev.fn = "reverse"
    /\ prev.subdivision = 1
    /\ ~SameArray(arg, prev.arg)

\* C28: in the stereo magnitude plot, after any sequence of clicks on the
\* channel selector (L, R, SUM, MID, SIDE) and on the scale selector (LIN,
\* dB), exactly one spectrum line is on the axes, and it is the spectrum of
\* the channel selected last drawn at the scale selected last (at first L
\* at linear scale); a channel click never changes the scale and a scale
\* click never changes the channel.
ChannelData(a, label) ==
    CASE label = "L" -> MonoArray(Column(a, 1))
      [] label = "R" -> MonoArray(Column(a, 2))
      [] label = "SUM" ->
            MonoArray([i \in 1..len(a) |-> fl(a.data[i][1] + a.data[i][2])])
      [] label = "MID" ->
            MonoArray([i \in 1..len(a) |-> EncodeFrame(a.data[i])[1]])
      [] label = "SIDE" ->
            MonoArray([i \in 1..len(a) |-> EncodeFrame(a.data[i])[2]])

UnitsOf(label) == IF label = "dB" THEN "dB" ELSE "energy"

C28_OneLineOfSelectedChannelAndScale ==
    channels = "2" =>
        /\ Len(ax.lines) = 1
        /\ ax.lines[1].x = ChannelData(array, lrsums)
        /\ ax.lines[1].units = UnitsOf(lindB)
        /\ op.fn = "import" =>
              ax.lines[1] = [x |-> MonoArray(Column(array, 1)), units |-> "energy"]
        /\ op.fn = "side" =>
              /\ lrsums = op.label
              /\ state.scale = arg.scale
              /\ ax.lines[1].units = arg.line.units
        /\ op.fn = "scale" =>
              /\ lindB = op.label
              /\ state.data = arg.data
              /\ ax.lines[1].x = arg.line.x

\* a channel click that changed the channel while dB was the scale
C28_Witness ==
    /\ channels = "2"
    /\ op.fn = "side"
    /\ op.label = "SIDE"
    /\ lindB = "dB"
    /\ ax.lines = <<[x |-> state.SIDE, units |-> "dB"]>>
    /\ arg.data # state.data
    /\ arg.line.x # state.line.x
    /\ state.SIDE # state.L

\* C29: in the vectorscope exactly one of the polar axes and the Lissajous
\* axes is visible in every reachable state: at first the Lissajous axes
\* are visible and the polar axes hidden, and after any sequence of
\* choose_plot callbacks with labels Polar and Lissajous the visible axes
\* are the ones named by the last label.
C29_ExactlyOnePlotVisible ==
    /\ pol_ax.visible \in BOOLEAN
    /\ float_ax.visible \in BOOLEAN
    /\ pol_ax.visible # float_ax.visible
    /\ op.fn = "import" => float_ax.visible /\ ~pol_ax.visible
    /\ (op.fn = "choose_plot" /\ op.label = "Polar") =>
          pol_ax.visible /\ ~float_ax.visible
    /\ (op.fn = "choose_plot" /\ op.label = "Lissajous") =>
          float_ax.visible /\ ~pol_ax.visible

\* Lissajous chosen while the polar axes were the visible ones
C29_Witness ==
    /\ op.fn = "choose_plot"
    /\ op.label = "Lissajous"
    /\ arg.pol_ax.visible
    /\ ~arg.float_ax.visible
    /\ float_ax.visible
    /\ ~pol_ax.visible

====
